---------------------------- MODULE Spec2Model ----------------------------
(***************************************************************************)
(* asciicam: the frame-processing core and the loop that drives it.        *)
(*                                                                         *)
(*   - ascii.Converter  (pixelToASCII, ImageToASCII, ImageToANSI)          *)
(*   - greenscreen.Processor (Apply, LoadBackground, SetThreshold)         *)
(*   - main and run (setup, the frame loop, sample generation, the FPS     *)
(*     window, cancellation and the deferred releases)                     *)
(*                                                                         *)
(* Colours are records [kind, R, G, B, A].  kind tells which Go colour     *)
(* type the value has, because Color.RGBA() differs per type:              *)
(*   "RGBA"    color.RGBA    8-bit channels, alpha-premultiplied           *)
(*   "NRGBA"   color.NRGBA   8-bit channels, not premultiplied             *)
(*   "Alpha16" color.Alpha16 16-bit alpha only (image.Transparent)         *)
(* Lab coordinates and thresholds are fixed-point, scaled by 10000.        *)
(* A rendered string is a sequence of styled cells; the line terminator    *)
(* is the cell NL.                                                         *)
(***************************************************************************)
EXTENDS Integers, Sequences, FiniteSets, TLC

VARIABLES
    pixels,       \* Converter.pixels: the glyph table, a sequence of runes
    globalColor,  \* Converter.globalColor
    threshold,    \* Processor.threshold (x 10000)
    background,   \* Processor.background (NilImage when not loaded)
    frame,        \* the working image handed to Apply and to the renderers
    output,       \* the string the last render returned
    phase,        \* "idle", "applied", "ascii", "ansi" or "pixel": what has been
                  \* done to the current frame
    run,          \* the activation of run: its position, cfg and locals
    world,        \* what run acts on: signal, camera, terminal, sample files
    samplePath,   \* Processor.samplePath
    call          \* a function called on its own: its arguments and results

vars == <<pixels, globalColor, threshold, background, frame, output, phase,
          run, world, samplePath, call>>

-----------------------------------------------------------------------------
(* Bounds of the model *)

MaxW == 2
MaxH == 4
MaxGlyphs == 23

-----------------------------------------------------------------------------
(* Colours *)

Col(k, r, g, b, a) == [kind |-> k, R |-> r, G |-> g, B |-> b, A |-> a]

\* image.Transparent: a uniform image of color.Alpha16{0}
Transparent == Col("Alpha16", 0, 0, 0, 0)

\* color.RGBA{}: what image.RGBA.At returns outside the image's bounds
ZeroRGBA == Col("RGBA", 0, 0, 0, 0)

\* Color.RGBA(): 16-bit alpha-premultiplied channels
RGBA16(c) ==
    CASE c.kind = "RGBA" ->
           [r |-> c.R * 257, g |-> c.G * 257, b |-> c.B * 257, a |-> c.A * 257]
      [] c.kind = "NRGBA" ->
           [r |-> (c.R * 257 * c.A) \div 255,
            g |-> (c.G * 257 * c.A) \div 255,
            b |-> (c.B * 257 * c.A) \div 255,
            a |-> c.A * 257]
      [] OTHER ->
           [r |-> c.A, g |-> c.A, b |-> c.A, a |-> c.A]

\* (r * 0xffff) / a as uint32 arithmetic computes it, for 0 < a <= 0xffff,
\* split so that no intermediate product exceeds 31 bits
Unpremultiply(r, a) ==
    LET t == (r % a) * 255
    IN  (r \div a) * 65535 + (t \div a) * 257 + ((t % a) * 257) \div a

\* color.NRGBAModel.Convert
nrgbaModel(c) ==
    IF c.kind = "NRGBA" THEN c
    ELSE LET v == RGBA16(c) IN
         IF v.a = 65535
           THEN Col("NRGBA", v.r \div 256, v.g \div 256, v.b \div 256, 255)
         ELSE IF v.a = 0
           THEN Col("NRGBA", 0, 0, 0, 0)
         ELSE Col("NRGBA",
                  (Unpremultiply(v.r, v.a) \div 256) % 256,
                  (Unpremultiply(v.g, v.a) \div 256) % 256,
                  (Unpremultiply(v.b, v.a) \div 256) % 256,
                  v.a \div 256)

\* color.RGBAModel.Convert, applied by image.RGBA.Set
rgbaModel(c) ==
    IF c.kind = "RGBA" THEN c
    ELSE LET v == RGBA16(c) IN
         Col("RGBA", v.r \div 256, v.g \div 256, v.b \div 256, v.a \div 256)

-----------------------------------------------------------------------------
(* Images *)

NilImage == [nil |-> TRUE, w |-> 0, h |-> 0, pix |-> << >>]

Coords(w, h) == (0 .. w - 1) \X (0 .. h - 1)

\* img.At(x, y)
At(img, x, y) ==
    IF <<x, y>> \in Coords(img.w, img.h) THEN img.pix[<<x, y>>] ELSE ZeroRGBA

\* img.Set(x, y, c) on an *image.RGBA
SetPix(img, x, y, c) ==
    IF <<x, y>> \in Coords(img.w, img.h)
      THEN [img EXCEPT !.pix[<<x, y>>] = rgbaModel(c)]
      ELSE img

-----------------------------------------------------------------------------
(* ascii.Converter *)

\* NewConverter: the default 15-level table, as runes
DefaultPixels ==
    <<32, 46, 44, 58, 59, 105, 49, 116, 102, 76, 67, 71, 48, 56, 64>>

\* NewConverter: alpha 0 means "no global colour"
UnsetColor == Col("RGBA", 0, 0, 0, 0)

\* the rune standing for a run-time panic "index out of range"
IndexPanic == 0 - 1

\* faulty variant: the alpha factor dropped from the intensity
pixelIndexNoAlpha(px, c) ==
    LET v == RGBA16(c)
        intensity == (v.r \div 256) + (v.g \div 256) + (v.b \div 256)
        precision == (255 * 3) \div (Len(px) - 1)
    IN  (2 * intensity + precision) \div (2 * precision)

\* faulty variant: the precision computed from the table length, not length - 1
pixelIndexLen(px, c) ==
    LET v == RGBA16(c)
        r == v.r \div 256
        g == v.g \div 256
        b == v.b \div 256
        a == v.a \div 256
        intensity == ((r + g + b) * a) \div 255
        precision == (255 * 3) \div Len(px)
    IN  (2 * intensity + precision) \div (2 * precision)

\* the index v that pixelToASCII computes.  precision is an integer
\* division converted to float64; floor(i/p + 0.5) of two integers is
\* (2i + p) div 2p.
pixelIndex(px, c) ==
    LET v == RGBA16(c)
        r == v.r \div 256
        g == v.g \div 256
        b == v.b \div 256
        a == v.a \div 256
        intensity == ((r + g + b) * a) \div 255
        precision == (255 * 3) \div (Len(px) - 1)
    IN  (2 * intensity + precision) \div (2 * precision)

\* Converter.pixelToASCII: c.pixels[v], which panics when v is out of range
pixelToASCII(px, c) ==
    LET v == pixelIndex(px, c)
    IN  IF v + 1 \in DOMAIN px THEN px[v + 1] ELSE IndexPanic

\* colorful.MakeColor: the un-premultiplied channels, as numerators over
\* 65535; a fully transparent colour gives black
MakeColor(c) ==
    LET v == RGBA16(c) IN
    IF v.a = 0 THEN <<0, 0, 0>>
    ELSE <<Unpremultiply(v.r, v.a), Unpremultiply(v.g, v.a), Unpremultiply(v.b, v.a)>>

\* colorful.Color.Hex: uint8(v*255 + 0.5) per channel
Hex(q) ==
    <<(2 * q[1] + 257) \div 514, (2 * q[2] + 257) \div 514, (2 * q[3] + 257) \div 514>>

\* termenv.Profile.FromColor under the TrueColor profile
FromColor(c) == Hex(MakeColor(c))

NoColor == << >>

\* "\n"
NL == [ch |-> 10, fg |-> NoColor, bg |-> NoColor]

\* what a render leaves behind when pixelToASCII panics
Panicked == <<[ch |-> IndexPanic, fg |-> NoColor, bg |-> NoColor]>>

\* faulty variant: column and row exchanged in the sample
asciiCellTransposed(px, gc, img, j, i) ==
    LET pixel == nrgbaModel(At(img, i, j))
        ch == pixelToASCII(px, pixel)
    IN  IF RGBA16(gc).a > 0
          THEN [ch |-> ch, fg |-> FromColor(gc), bg |-> NoColor]
          ELSE [ch |-> ch, fg |-> FromColor(pixel), bg |-> NoColor]

\* faulty variant: the global colour used whether it is set or not
asciiCellAlwaysGlobal(px, gc, img, j, i) ==
    LET pixel == nrgbaModel(At(img, j, i))
        ch == pixelToASCII(px, pixel)
    IN  [ch |-> ch, fg |-> FromColor(gc), bg |-> NoColor]

\* body of the inner loop of ImageToASCII: the styled glyph of column j, row i
asciiCell(px, gc, img, j, i) ==
    LET pixel == nrgbaModel(At(img, j, i))
        ch == pixelToASCII(px, pixel)
    IN  IF RGBA16(gc).a > 0
          THEN [ch |-> ch, fg |-> FromColor(gc), bg |-> NoColor]
          ELSE [ch |-> ch, fg |-> FromColor(pixel), bg |-> NoColor]

RECURSIVE asciiRow(_, _, _, _, _, _)
\* for j := j; j < width; j++
asciiRow(px, gc, img, width, i, j) ==
    IF j >= width THEN << >>
    ELSE <<asciiCell(px, gc, img, j, i)>> \o asciiRow(px, gc, img, width, i, j + 1)

RECURSIVE asciiRows(_, _, _, _, _, _)
\* for i := i; i < height; i++
asciiRows(px, gc, img, width, height, i) ==
    IF i >= height THEN << >>
    ELSE asciiRow(px, gc, img, width, i, 0) \o <<NL>>
           \o asciiRows(px, gc, img, width, height, i + 1)

\* Converter.ImageToASCII
ImageToASCII(px, gc, width, height, img) ==
    LET s == asciiRows(px, gc, img, width, height, 0)
    IN  IF \E k \in DOMAIN s : s[k].ch = IndexPanic THEN Panicked ELSE s

\* the upper half block U+2580
HalfBlock == 9600

\* faulty variant: top and bottom pixel exchanged
ansiCellFlipped(img, x, y) ==
    [ch |-> HalfBlock, fg |-> FromColor(At(img, x, y + 1)), bg |-> FromColor(At(img, x, y))]

\* body of the inner loop of ImageToANSI
ansiCell(img, x, y) ==
    [ch |-> HalfBlock, fg |-> FromColor(At(img, x, y)), bg |-> FromColor(At(img, x, y + 1))]

RECURSIVE ansiRow(_, _, _)
\* for x := x; x < b.Max.X; x++
ansiRow(img, x, y) ==
    IF x >= img.w THEN << >>
    ELSE <<ansiCell(img, x, y)>> \o ansiRow(img, x + 1, y)

RECURSIVE ansiRows(_, _)
\* for y := y; y < b.Max.Y; y += 2
ansiRows(img, y) ==
    IF y >= img.h THEN << >>
    ELSE ansiRow(img, 0, y) \o <<NL>> \o ansiRows(img, y + 2)

\* Converter.ImageToANSI
ImageToANSI(img) == ansiRows(img, 0)

-----------------------------------------------------------------------------
(* greenscreen.Processor *)

\* colorful.Color.Lab (D65), x 10000, of the colours the model's images hold
LabTable(rgb) ==
    CASE rgb = <<0, 0, 0>>       -> <<0, 0, 0>>
      [] rgb = <<100, 100, 100>> -> <<4237, 0, 0 - 1>>
      [] rgb = <<120, 120, 120>> -> <<5043, 0, 0 - 1>>
      [] rgb = <<255, 255, 255>> -> <<10000, 0, 0 - 1>>

\* colorful.MakeColor followed by Color.Lab; every colour of the model's
\* images has channels that are exact multiples of 1/255
Lab(c) == LabTable(Hex(MakeColor(c)))

Sq(n) == n * n

\* the square of c1.DistanceLab(c2)
DistanceLabSq(c1, c2) ==
    LET p == Lab(c1)
        q == Lab(c2)
    IN  Sq(p[1] - q[1]) + Sq(p[2] - q[2]) + Sq(p[3] - q[3])

\* faulty variant: the comparison made inclusive
SimilarInclusive(c1, c2, thr) ==
    thr >= 0 /\ DistanceLabSq(c1, c2) <= Sq(thr)

\* c1.DistanceLab(c2) < p.threshold; a distance is never negative
Similar(c1, c2, thr) ==
    thr > 0 /\ DistanceLabSq(c1, c2) < Sq(thr)

\* faulty variant: the write goes to the transposed coordinate
ApplyPixelTransposed(img, bg, thr, x, y) ==
    IF Similar(At(img, x, y), At(bg, x, y), thr)
      THEN SetPix(img, y, x, Transparent)
      ELSE img

\* body of the inner loop of Apply
ApplyPixel(img, bg, thr, x, y) ==
    IF Similar(At(img, x, y), At(bg, x, y), thr)
      THEN SetPix(img, x, y, Transparent)
      ELSE img

RECURSIVE applyLoop(_, _, _, _)
\* the two nested loops of Apply, row by row; k = y * width + x
applyLoop(img, bg, thr, k) ==
    IF k >= img.w * img.h THEN img
    ELSE applyLoop(ApplyPixel(img, bg, thr, k % img.w, k \div img.w), bg, thr, k + 1)

\* Processor.Apply: the image it leaves
ApplyImage(img, bg, thr) ==
    IF bg.nil THEN img ELSE applyLoop(img, bg, thr, 0)

-----------------------------------------------------------------------------
(* Inputs *)

Black     == Col("RGBA", 0, 0, 0, 255)
Gray100   == Col("RGBA", 100, 100, 100, 255)
Gray120   == Col("RGBA", 120, 120, 120, 255)
White     == Col("RGBA", 255, 255, 255, 255)
\* white at alpha 128, as image.RGBA stores it
HalfWhite == Col("RGBA", 128, 128, 128, 128)

FramePalette == <<Black, Gray100, White, HalfWhite>>
BackgroundPalette == <<Black, Gray120, White>>

\* a w x h image.RGBA whose pixel (x, y) is pal[(a*x + b*y + s) mod Len(pal)]
Pattern(pal, w, h, a, b, s) ==
    [nil |-> FALSE, w |-> w, h |-> h,
     pix |-> [c \in Coords(w, h) |-> pal[((a * c[1] + b * c[2] + s) % Len(pal)) + 1]]]

Images(pal, w, h) ==
    {Pattern(pal, w, h, a, b, s) : a \in 0 .. 1, b \in 0 .. 1, s \in 0 .. Len(pal) - 1}

Frames(w, h) == Images(FramePalette, w, h)
Backgrounds(w, h) == Images(BackgroundPalette, w, h)

\* 0, the reference default 0.13, and a value above every Lab distance
Thresholds == {0, 1300, 30000}

\* unset, and the red of TestImageToASCII_WithGlobalColor
GlobalColors == {UnsetColor, Col("RGBA", 255, 0, 0, 255)}

-----------------------------------------------------------------------------
(* The state machine: a Converter and a Processor working on one frame,   *)
(* driven directly, with no activation of run.                            *)
(* As in run, the converter and the processor are configured while the    *)
(* frame is untouched ("idle"); the frame is then subtracted ("applied")  *)
(* and rendered ("ascii", "ansi"), and the next frame is read.            *)

\* NewConfig: SamplePath "bgsample"
DefaultSamplePath == "bgsample"

\* no function is being called on its own
NoCall == [op |-> "none"]

\* run has not been entered: nothing is acquired and nothing is on disk
NoRun == [pc |-> "absent"]

NoWorld == [camera |-> "unopened"]

Init ==
    /\ pixels = DefaultPixels
    /\ globalColor = UnsetColor
    /\ threshold \in Thresholds
    /\ background = NilImage
    /\ \E w \in 1 .. MaxW, h \in 1 .. MaxH : frame \in Frames(w, h)
    /\ output = << >>
    /\ phase = "idle"
    /\ run = NoRun
    /\ world = NoWorld
    /\ samplePath = DefaultSamplePath
    /\ call = NoCall

\* the next frame of the same size arrives; the previous string is dropped
ReadFrame ==
    /\ phase \in {"ascii", "ansi"}
    /\ frame' \in Frames(frame.w, frame.h)
    /\ output' = << >>
    /\ phase' = "idle"
    /\ UNCHANGED <<pixels, globalColor, threshold, background, run, world,
                   samplePath, call>>

CallSetGlobalColor ==
    /\ phase = "idle"
    /\ \E c \in GlobalColors : globalColor' = c
    /\ UNCHANGED <<pixels, threshold, background, frame, output, phase,
                   run, world, samplePath, call>>

CallSetThreshold ==
    /\ phase = "idle"
    /\ \E t \in Thresholds : threshold' = t
    /\ UNCHANGED <<pixels, globalColor, background, frame, output, phase,
                   run, world, samplePath, call>>

\* LoadBackground(width, height) with the frame's size: either the sample is
\* read and resized, or the read fails and the background stays as it was
CallLoadBackground ==
    /\ phase = "idle"
    /\ \/ background' \in Backgrounds(frame.w, frame.h)
       \/ background' = background
    /\ UNCHANGED <<pixels, globalColor, threshold, frame, output, phase,
                   run, world, samplePath, call>>

CallApply ==
    /\ phase \in {"idle", "applied"}
    /\ frame' = ApplyImage(frame, background, threshold)
    /\ phase' = "applied"
    /\ UNCHANGED <<pixels, globalColor, threshold, background, output,
                   run, world, samplePath, call>>

CallImageToASCII ==
    /\ phase \in {"idle", "applied"}
    /\ output' = ImageToASCII(pixels, globalColor, frame.w, frame.h, frame)
    /\ phase' = "ascii"
    /\ UNCHANGED <<pixels, globalColor, threshold, background, frame, run, world,
                   samplePath, call>>

CallImageToANSI ==
    /\ phase \in {"idle", "applied"}
    /\ output' = ImageToANSI(frame)
    /\ phase' = "ansi"
    /\ UNCHANGED <<pixels, globalColor, threshold, background, frame, run, world,
                   samplePath, call>>

Next ==
    \/ ReadFrame
    \/ CallSetGlobalColor
    \/ CallSetThreshold
    \/ CallLoadBackground
    \/ CallApply
    \/ CallImageToASCII
    \/ CallImageToANSI

Spec == Init /\ [][Next]_vars

-----------------------------------------------------------------------------
(* The mapper on its own: one pixel, any table length *)

PixelLevels == {0, 81, 128, 255}

\* a table of n distinct runes; the default table when n is its length
GlyphTable(n) ==
    IF n = Len(DefaultPixels) THEN DefaultPixels ELSE [k \in 1 .. n |-> 255 + k]

\* every color.NRGBA over the levels, and every color.RGBA over the levels
\* that is a premultiplied colour or has alpha 0
PixelInputs ==
    {Col("NRGBA", r, g, b, a) : r \in PixelLevels, g \in PixelLevels,
                                b \in PixelLevels, a \in PixelLevels}
    \cup
    {c \in {Col("RGBA", r, g, b, a) : r \in PixelLevels, g \in PixelLevels,
                                      b \in PixelLevels, a \in PixelLevels} :
        c.A = 0 \/ (c.R <= c.A /\ c.G <= c.A /\ c.B <= c.A)}

OnePixel(c) == [nil |-> FALSE, w |-> 1, h |-> 1, pix |-> [xy \in Coords(1, 1) |-> c]]

InitPixel ==
    /\ \E n \in 2 .. MaxGlyphs : pixels = GlyphTable(n)
    /\ globalColor = UnsetColor
    /\ threshold = 0
    /\ background = NilImage
    /\ \E c \in PixelInputs : frame = OnePixel(c)
    /\ output = << >>
    /\ phase = "idle"
    /\ run = NoRun
    /\ world = NoWorld
    /\ samplePath = DefaultSamplePath
    /\ call = NoCall

\* converter.pixelToASCII(pixel) called on the frame's first pixel as it is
CallPixelToASCII ==
    /\ phase = "idle"
    /\ output' = <<[ch |-> pixelToASCII(pixels, At(frame, 0, 0)),
                    fg |-> NoColor, bg |-> NoColor]>>
    /\ phase' = "pixel"
    /\ UNCHANGED <<pixels, globalColor, threshold, background, frame, run, world,
                   samplePath, call>>

NextPixel ==
    \/ CallPixelToASCII
    \/ CallImageToASCII

SpecPixel == InitPixel /\ [][NextPixel]_vars

-----------------------------------------------------------------------------
(* main and run: setup, the frame loop, and the deferred releases.        *)
(*                                                                         *)
(* run.pc is the position in run: "flags", "camera", "processor",          *)
(* "terminal" (setup), then per iteration "top" (the ctx.Err test),        *)
(* "read", and "sample" or "render" and "fps"; "done" once run has         *)
(* returned or panicked and main has set the exit status.                  *)
(* world holds what run acts on, and what has happened to it: the terminal *)
(* size, the cancellation flag and where run was when the signal came, the *)
(* camera, cursor and screen, the sample files created, the frames         *)
(* rendered and the size they were rendered for, the consecutive failed    *)
(* reads, the FPS value of every frame, the FPS line as printed, and the   *)
(* exit status.  A mean is kept as <<sum, count>>.                         *)

\* the length of the fps slice
FPSWindow == 10

\* the count frameCount is compared with
SampleLimit == 100

\* time.Second and time.Millisecond: Durations count nanoseconds
Second == 1000000000
Millisecond == 1000000

\* frames rendered in one run
MaxFrames == 11

\* consecutive failed reads that are told apart
MaxFails == 2

\* what term.GetSize answers when run starts: columns, lines
StartSize == <<MaxW, MaxH \div 2>>

\* the sizes the terminal can be given
TermSizes == {<<1, 1>>, StartSize}

\* NewConfig with the flags -gen, -greenscreen, -ansi, -fps and -color as
\* given; threshold (0.13), width, height (0: detect) and zoom (4) are left
\* at their defaults
Configs ==
    [GenerateSamples : BOOLEAN, UseGreenscreen : BOOLEAN, ANSI : BOOLEAN,
     ShowFPS : BOOLEAN, ParsedColor : GlobalColors, Threshold : {1300},
     Width : {0}, Height : {0}, Zoom : {4}]

\* faulty variant: the height is never doubled
ValidateNoDouble(cfg, size) ==
    LET zoom   == IF cfg.Zoom < 1 THEN 1 ELSE IF cfg.Zoom > 4 THEN 4 ELSE cfg.Zoom
        width  == IF cfg.Width = 0 THEN size[1] ELSE cfg.Width
        height == IF cfg.Height = 0 THEN size[2] ELSE cfg.Height
        w      == IF width = 0 THEN 125 ELSE width
        h      == IF height = 0 THEN 50 ELSE height
    IN  [cfg EXCEPT !.Zoom = zoom, !.Width = w, !.Height = h]

\* Config.Validate with the terminal answering size
Validate(cfg, size) ==
    LET zoom   == IF cfg.Zoom < 1 THEN 1 ELSE IF cfg.Zoom > 4 THEN 4 ELSE cfg.Zoom
        width  == IF cfg.Width = 0 THEN size[1] ELSE cfg.Width
        height == IF cfg.Height = 0 THEN size[2] ELSE cfg.Height
        w      == IF width = 0 THEN 125 ELSE width
        h      == IF height = 0 THEN 50 ELSE height
    IN  [cfg EXCEPT !.Zoom = zoom, !.Width = w,
                    !.Height = IF cfg.ANSI THEN h * 2 ELSE h]

GetDisplayDimensions(cfg) == <<cfg.Width, cfg.Height>>

\* uint(float64(c.Width) * float64(c.Zoom) / 4.0), capped at the display's
GetScaledDimensions(cfg) ==
    LET sw == (cfg.Width * cfg.Zoom) \div 4
        sh == (cfg.Height * cfg.Zoom) \div 4
    IN  <<IF sw > cfg.Width THEN cfg.Width ELSE sw,
          IF sh > cfg.Height THEN cfg.Height ELSE sh>>

\* what the camera delivers: frames of two phases of the diagonal pattern
CameraFrames(w, h) == {Pattern(FramePalette, w, h, 1, 1, s) : s \in {0, 2}}

\* what the sample file holds once resized: a uniform black or white image
SampleBackgrounds(w, h) == {Pattern(BackgroundPalette, w, h, 0, 0, s) : s \in {0, 2}}

\* capture.ResizeImage: resize.Resize hands an image that already has the
\* target size back unchanged; the camera is taken to deliver that size
ResizeImage(img, width, height) == img

\* the deferred calls, run last-in first-out when run returns or panics
RECURSIVE RunDefers(_, _)
RunDefers(w, defers) ==
    IF defers = << >> THEN w
    ELSE LET d  == defers[Len(defers)]
             w1 == CASE d = "capture.Close" -> [w EXCEPT !.camera = "closed"]
                     [] d = "output.ShowCursor" -> [w EXCEPT !.cursorHidden = FALSE]
                     [] d = "output.ExitAltScreen" -> [w EXCEPT !.altScreen = FALSE]
         IN  RunDefers(w1, SubSeq(defers, 1, Len(defers) - 1))

\* main after run: a nil error ends the process with status 0, an error
\* with os.Exit(1), a panic with the runtime's status 2
ExitStatus(err) == IF err = "nil" THEN 0 ELSE IF err = "panic" THEN 2 ELSE 1

\* faulty variant: the deferred calls are skipped
ReturnFromNoDefers(r, w, err) ==
    /\ run' = [r EXCEPT !.pc = "done", !.err = err]
    /\ world' = [w EXCEPT !.exit = ExitStatus(err)]

\* run, with locals r and the world at w, returns err (or panics): the
\* deferred calls run and main sets the exit status
ReturnFrom(r, w, err) ==
    /\ run' = [r EXCEPT !.pc = "done", !.err = err, !.defers = << >>]
    /\ world' = [RunDefers(w, r.defers) EXCEPT !.exit = ExitStatus(err)]

Return(err) == ReturnFrom(run, world, err)

\* the process has not exited
Running == 0 - 1

\* nothing has been printed on the FPS line
NoReport == [line |-> 0, mean |-> <<0, 0>>, text |-> 0 - 1]

InitRun ==
    /\ pixels = DefaultPixels
    /\ globalColor = UnsetColor
    /\ threshold = 0
    /\ background = NilImage
    /\ frame = NilImage
    /\ output = << >>
    /\ phase = "idle"
    /\ \E c \in Configs :
         run = [pc |-> "flags", cfg |-> c, err |-> "running", defers |-> << >>,
                termWidth |-> 0, termHeight |-> 0,
                scaledWidth |-> 0, scaledHeight |-> 0,
                fps |-> << >>, frameCount |-> 0]
    /\ world = [termSize |-> StartSize, cancelled |-> FALSE, signalAt |-> "never",
                camera |-> "unopened", cursorHidden |-> FALSE, altScreen |-> FALSE,
                files |-> << >>, rendered |-> 0, renderDims |-> <<0, 0>>,
                fails |-> 0, fpsLog |-> << >>, reported |-> NoReport,
                exit |-> Running]
    /\ samplePath = DefaultSamplePath
    /\ call = NoCall

\* the goroutine of main: a signal arrives, cancel() is called
Cancel ==
    /\ run.pc # "done"
    /\ ~world.cancelled
    /\ world' = [world EXCEPT !.cancelled = TRUE, !.signalAt = run.pc]
    /\ UNCHANGED <<pixels, globalColor, threshold, background, frame, output,
                   phase, run, samplePath, call>>

\* the user resizes the terminal between two rendered frames
Resize ==
    /\ run.pc = "top"
    /\ world.rendered > 0
    /\ \E size \in TermSizes \ {world.termSize} :
         world' = [world EXCEPT !.termSize = size]
    /\ UNCHANGED <<pixels, globalColor, threshold, background, frame, output,
                   phase, run, samplePath, call>>

\* cfg.ParseFlags: an invalid -color is an error, else Validate
ParseFlags ==
    /\ run.pc = "flags"
    /\ \/ Return("error parsing flags")
       \/ /\ run' = [run EXCEPT !.pc = "camera",
                                !.cfg = Validate(run.cfg, world.termSize)]
          /\ world' = world
    /\ UNCHANGED <<pixels, globalColor, threshold, background, frame, output,
                   phase, samplePath, call>>

\* camera.NewCapture, defer capture.Close, NewConverter, SetGlobalColor
OpenCamera ==
    /\ run.pc = "camera"
    /\ \/ /\ Return("error initializing camera")
          /\ UNCHANGED globalColor
       \/ /\ run' = [run EXCEPT !.pc = "processor",
                                !.defers = Append(run.defers, "capture.Close")]
          /\ world' = [world EXCEPT !.camera = "open"]
          /\ globalColor' = run.cfg.ParsedColor
    /\ UNCHANGED <<pixels, threshold, background, frame, output, phase,
                   samplePath, call>>

\* faulty variant: a background that cannot be loaded is passed over
SetupProcessorLenient ==
    /\ run.pc = "processor"
    /\ \/ background' = background
       \/ /\ run.cfg.UseGreenscreen
          /\ background' \in SampleBackgrounds(run.cfg.Width, run.cfg.Height)
    /\ run' = [run EXCEPT !.pc = "terminal"]
    /\ world' = world
    /\ threshold' = IF run.cfg.UseGreenscreen \/ run.cfg.GenerateSamples
                      THEN run.cfg.Threshold ELSE threshold
    /\ UNCHANGED <<pixels, globalColor, frame, output, phase, samplePath, call>>

\* NewProcessor and LoadBackground, when the flags ask for them
SetupProcessor ==
    /\ run.pc = "processor"
    /\ IF run.cfg.UseGreenscreen
         THEN \/ /\ Return("error loading background samples")
                 /\ background' = background
              \/ /\ background' \in SampleBackgrounds(run.cfg.Width, run.cfg.Height)
                 /\ run' = [run EXCEPT !.pc = "terminal"]
                 /\ world' = world
         ELSE /\ background' = background
              /\ run' = [run EXCEPT !.pc = "terminal"]
              /\ world' = world
    /\ threshold' = IF run.cfg.UseGreenscreen \/ run.cfg.GenerateSamples
                      THEN run.cfg.Threshold ELSE threshold
    /\ UNCHANGED <<pixels, globalColor, frame, output, phase, samplePath, call>>

\* the dimensions, HideCursor, AltScreen with their defers, the clear, fps
SetupTerminal ==
    /\ run.pc = "terminal"
    /\ run' = [run EXCEPT
                 !.pc = "top",
                 !.termWidth = GetDisplayDimensions(run.cfg)[1],
                 !.termHeight = GetDisplayDimensions(run.cfg)[2],
                 !.scaledWidth = GetScaledDimensions(run.cfg)[1],
                 !.scaledHeight = GetScaledDimensions(run.cfg)[2],
                 !.defers = run.defers \o <<"output.ShowCursor", "output.ExitAltScreen">>,
                 !.fps = [i \in 1 .. FPSWindow |-> 0],
                 !.frameCount = 0]
    /\ world' = [world EXCEPT !.cursorHidden = TRUE, !.altScreen = TRUE]
    /\ UNCHANGED <<pixels, globalColor, threshold, background, frame, output,
                   phase, samplePath, call>>

\* faulty variant: the signal is not looked at
LoopTopDeaf ==
    /\ run.pc = "top"
    /\ run' = [run EXCEPT !.pc = "read"]
    /\ world' = world
    /\ UNCHANGED <<pixels, globalColor, threshold, background, frame, output,
                   phase, samplePath, call>>

\* the top of the loop: if ctx.Err() != nil { return nil }
LoopTop ==
    /\ run.pc = "top"
    /\ IF world.cancelled
         THEN Return("nil")
         ELSE /\ run' = [run EXCEPT !.pc = "read"]
              /\ world' = world
    /\ UNCHANGED <<pixels, globalColor, threshold, background, frame, output,
                   phase, samplePath, call>>

\* capture.ReadFrame returns an image
CaptureFrame ==
    /\ run.pc = "read"
    /\ run.cfg.GenerateSamples \/ world.rendered < MaxFrames
    /\ frame' \in CameraFrames(run.scaledWidth, run.scaledHeight)
    /\ run' = [run EXCEPT !.pc = IF run.cfg.GenerateSamples THEN "sample"
                                                            ELSE "render"]
    /\ world' = [world EXCEPT !.fails = 0]
    /\ phase' = "idle"
    /\ UNCHANGED <<pixels, globalColor, threshold, background, output,
                   samplePath, call>>

\* faulty variant: a failed read is returned as run's error
CaptureFailedFatal ==
    /\ run.pc = "read"
    /\ Return("error reading frame")
    /\ UNCHANGED <<pixels, globalColor, threshold, background, frame, output,
                   phase, samplePath, call>>

\* faulty variant: a failed read uses up a sample index
CaptureFailedConsumesIndex ==
    /\ run.pc = "read"
    /\ run' = [run EXCEPT !.pc = "top",
                          !.frameCount = IF run.frameCount < SampleLimit
                                           THEN run.frameCount + 1
                                           ELSE run.frameCount]
    /\ world' = [world EXCEPT
                   !.fails = IF world.fails < MaxFails THEN world.fails + 1
                                                        ELSE MaxFails]
    /\ UNCHANGED <<pixels, globalColor, threshold, background, frame, output,
                   phase, samplePath, call>>

\* capture.ReadFrame returns an error: it is printed, the loop sleeps 100 ms
\* and continues
CaptureFailed ==
    /\ run.pc = "read"
    /\ run' = [run EXCEPT !.pc = "top"]
    /\ world' = [world EXCEPT
                   !.fails = IF world.fails < MaxFails THEN world.fails + 1
                                                        ELSE MaxFails]
    /\ UNCHANGED <<pixels, globalColor, threshold, background, frame, output,
                   phase, samplePath, call>>

\* faulty variant: the frame is counted although its sample failed
GenerateSampleCountsFailure ==
    /\ run.pc = "sample"
    /\ \/ ReturnFrom([run EXCEPT !.frameCount = run.frameCount + 1], world,
                     "error generating background sample")
       \/ /\ run' = [run EXCEPT !.pc = "top", !.frameCount = run.frameCount + 1]
          /\ world' = [world EXCEPT
                         !.files = Append(world.files,
                                          [n |-> run.frameCount, complete |-> TRUE])]
    /\ UNCHANGED <<pixels, globalColor, threshold, background, frame, output,
                   phase, samplePath, call>>

\* the -gen branch of an iteration: GenerateSamples(img, frameCount) fails
\* before the file exists (MkdirAll, Create) or after it (Encode), or it
\* succeeds; then frameCount++ and the test against the limit
GenerateSample ==
    /\ run.pc = "sample"
    /\ LET name    == run.frameCount
           partial == [world EXCEPT
                         !.files = Append(world.files,
                                          [n |-> name, complete |-> FALSE])]
           written == [world EXCEPT
                         !.files = Append(world.files,
                                          [n |-> name, complete |-> TRUE])]
           counted == [run EXCEPT !.frameCount = run.frameCount + 1]
       IN  \/ ReturnFrom(run, world, "error generating background sample")
           \/ ReturnFrom(run, partial, "error generating background sample")
           \/ IF counted.frameCount > SampleLimit
                 THEN ReturnFrom(counted, written, "nil")
                 ELSE /\ run' = [counted EXCEPT !.pc = "top"]
                      /\ world' = written
    /\ UNCHANGED <<pixels, globalColor, threshold, background, frame, output,
                   phase, samplePath, call>>

\* gsProcessor.Apply(rgbaImg) when -greenscreen is set
Subtracted(cfg, bg, thr, img) ==
    IF cfg.UseGreenscreen THEN ApplyImage(img, bg, thr) ELSE img

\* faulty variant: a frame is rendered in every mode
RenderFrameAnyMode ==
    /\ run.pc \in {"render", "sample"}
    /\ \E img \in {Subtracted(run.cfg, background, threshold,
                               ResizeImage(frame, run.scaledWidth, run.scaledHeight))} :
         /\ frame' = img
         /\ output' \in {IF run.cfg.ANSI
                           THEN ImageToANSI(img)
                           ELSE ImageToASCII(pixels, globalColor, run.termWidth,
                                             run.termHeight, img)}
    /\ phase' = IF run.cfg.ANSI THEN "ansi" ELSE "ascii"
    /\ run' = [run EXCEPT !.pc = IF run.cfg.ShowFPS THEN "fps" ELSE "top"]
    /\ world' = [world EXCEPT !.rendered = world.rendered + 1,
                              !.renderDims = <<run.termWidth, run.termHeight>>]
    /\ UNCHANGED <<pixels, globalColor, threshold, background, samplePath, call>>

\* the rendering branch of an iteration: resize, Apply under -greenscreen,
\* ImageToANSI or ImageToASCII, and the string is printed from the home
\* position
RenderFrame ==
    /\ run.pc = "render"
    /\ \E img \in {Subtracted(run.cfg, background, threshold,
                               ResizeImage(frame, run.scaledWidth, run.scaledHeight))} :
         /\ frame' = img
         /\ output' \in {IF run.cfg.ANSI
                           THEN ImageToANSI(img)
                           ELSE ImageToASCII(pixels, globalColor, run.termWidth,
                                             run.termHeight, img)}
    /\ phase' = IF run.cfg.ANSI THEN "ansi" ELSE "ascii"
    /\ run' = [run EXCEPT !.pc = IF run.cfg.ShowFPS THEN "fps" ELSE "top"]
    /\ world' = [world EXCEPT !.rendered = world.rendered + 1,
                              !.renderDims = <<run.termWidth, run.termHeight>>]
    /\ UNCHANGED <<pixels, globalColor, threshold, background, samplePath, call>>

\* what time.Since(now) can be for the n-th rendered frame, in nanoseconds:
\* nothing measurable, or n milliseconds
Elapsed(n) == {0, n * Millisecond}

\* faulty variant: the shift runs from the front and smears fps[0]
ShiftForward(fps) == [i \in 1 .. Len(fps) |-> fps[1]]

\* for i := len(fps) - 1; i > 0; i-- { fps[i] = fps[i-1] }
Shift(fps) == [i \in 1 .. Len(fps) |-> IF i = 1 THEN fps[1] ELSE fps[i - 1]]

RECURSIVE SumSeq(_)
\* for _, f := range fps { fpsa += f }
SumSeq(s) == IF s = << >> THEN 0 ELSE s[1] + SumSeq(Tail(s))

\* "%.0f" of num/den: to the nearest integer, a tie to the even one
RoundHalfEven(num, den) ==
    LET q == num \div den
        r == num % den
    IN  IF 2 * r < den THEN q
        ELSE IF 2 * r > den THEN q + 1
        ELSE IF q % 2 = 0 THEN q ELSE q + 1

\* the line the FPS text is put on
CursorLine(termHeight, ansi) ==
    LET line == (termHeight \div (IF ansi THEN 2 ELSE 1)) + 1
    IN  IF line < 1 THEN 1 ELSE line

\* the -fps part of an iteration: shift, fps[0] = time.Second / elapsed (an
\* integer division of Durations, which panics on 0), sum, print the mean
UpdateFPS ==
    /\ run.pc = "fps"
    /\ \E d \in Elapsed(world.rendered) :
         LET shifted == Shift(run.fps)
         IN  IF d = 0
               THEN ReturnFrom([run EXCEPT !.fps = shifted], world, "panic")
               ELSE LET fps  == [shifted EXCEPT ![1] = Second \div d]
                        fpsa == SumSeq(fps)
                    IN  /\ run' = [run EXCEPT !.pc = "top", !.fps = fps]
                        /\ world' = [world EXCEPT
                              !.fpsLog = Append(world.fpsLog, Second \div d),
                              !.reported =
                                 [line |-> CursorLine(run.termHeight, run.cfg.ANSI),
                                  mean |-> <<fpsa, Len(fps)>>,
                                  text |-> RoundHalfEven(fpsa, Len(fps))]]
    /\ UNCHANGED <<pixels, globalColor, threshold, background, frame, output,
                   phase, samplePath, call>>

NextRun ==
    \/ Cancel
    \/ Resize
    \/ ParseFlags
    \/ OpenCamera
    \/ SetupProcessor
    \/ SetupTerminal
    \/ LoopTop
    \/ CaptureFrame
    \/ CaptureFailed
    \/ GenerateSample
    \/ RenderFrame
    \/ UpdateFPS

SpecRun == InitRun /\ [][NextRun]_vars

\* the steps of run other than rendering
RunStep ==
    \/ ParseFlags
    \/ OpenCamera
    \/ SetupProcessor
    \/ SetupTerminal
    \/ LoopTop
    \/ CaptureFrame
    \/ CaptureFailed
    \/ GenerateSample
    \/ UpdateFPS

\* run is one goroutine that the scheduler keeps running, and every call it
\* makes returns (ReadFrame with a frame or an error); signals and resizes
\* need not happen.  RenderFrame is enabled exactly at "render" and is the
\* only step that leaves it, so its weak fairness is stated on the position.
SpecRunFair == SpecRun /\ WF_vars(RunStep) /\ []<>(run.pc # "render")

-----------------------------------------------------------------------------
(* Properties *)

Rendered == phase \in {"pixel", "ascii"}

\* the position of rune ch in table px, counted from 0
IndexOf(px, ch) == CHOOSE k \in 0 .. Len(px) - 1 : px[k + 1] = ch

\* the cell of line i, position j in a string of lines of w cells
CellAt(s, w, i, j) == s[i * (w + 1) + j + 1]

IsTransparent(c) == c.A = 0

\* C1: ImageToASCII(width, height, ..) returns exactly height lines, each
\* closed by a newline (the last one too), each of exactly width cells, and
\* the cell of line i, position j carries the glyph of the pixel at column j,
\* row i.
C1_AsciiGrid ==
    phase = "ascii" =>
        /\ Len(output) = frame.h * (frame.w + 1)
        /\ Cardinality({k \in DOMAIN output : output[k] = NL}) = frame.h
        /\ \A i \in 0 .. frame.h - 1 :
             /\ CellAt(output, frame.w, i, frame.w) = NL
             /\ \A j \in 0 .. frame.w - 1 :
                  CellAt(output, frame.w, i, j).ch
                      = pixelToASCII(pixels, nrgbaModel(At(frame, j, i)))

\* a rendered frame of at least 2 x 2 whose pixels (1, 0) and (0, 1) have
\* different glyphs
C1_Witness ==
    /\ phase = "ascii"
    /\ frame.w >= 2
    /\ frame.h >= 2
    /\ CellAt(output, frame.w, 0, 1).ch # CellAt(output, frame.w, 1, 0).ch

\* C2: ImageToANSI on an image of width W and even height H returns exactly
\* H/2 newline-terminated lines of W upper-half-block cells; cell x of line k
\* has the pixel (x, 2k) as foreground and the pixel (x, 2k+1) as background.
C2_AnsiGrid ==
    (phase = "ansi" /\ frame.h % 2 = 0) =>
        /\ Len(output) = (frame.h \div 2) * (frame.w + 1)
        /\ Cardinality({k \in DOMAIN output : output[k] = NL}) = frame.h \div 2
        /\ \A k \in 0 .. (frame.h \div 2) - 1 :
             /\ CellAt(output, frame.w, k, frame.w) = NL
             /\ \A x \in 0 .. frame.w - 1 :
                  /\ CellAt(output, frame.w, k, x).ch = HalfBlock
                  /\ CellAt(output, frame.w, k, x).fg = FromColor(At(frame, x, 2 * k))
                  /\ CellAt(output, frame.w, k, x).bg = FromColor(At(frame, x, 2 * k + 1))

\* a rendered frame of height 4 with a cell in its second line whose
\* foreground and background differ
C2_Witness ==
    /\ phase = "ansi"
    /\ frame.h = 4
    /\ frame.w >= 2
    /\ CellAt(output, frame.w, 1, 1).fg # CellAt(output, frame.w, 1, 1).bg

\* C3: with a background loaded, Apply makes transparent exactly the pixels
\* whose Lab distance to the background pixel at the same coordinate is
\* strictly below the threshold; every other pixel, the size of the image and
\* the background stay as they were.
C3_ApplyEffect ==
    [][(phase' = "applied" /\ ~background.nil) =>
          /\ frame'.w = frame.w
          /\ frame'.h = frame.h
          /\ background' = background
          /\ \A c \in Coords(frame.w, frame.h) :
               IF /\ threshold > 0
                  /\ DistanceLabSq(frame.pix[c], At(background, c[1], c[2]))
                       < threshold * threshold
                 THEN IsTransparent(frame'.pix[c])
                 ELSE frame'.pix[c] = frame.pix[c]]_vars

\* a subtracted frame in which the default threshold removed one pixel and
\* kept another
C3_Witness ==
    /\ phase = "applied"
    /\ ~background.nil
    /\ threshold = 1300
    /\ \E c \in Coords(frame.w, frame.h) : IsTransparent(frame.pix[c])
    /\ \E c \in Coords(frame.w, frame.h) : ~IsTransparent(frame.pix[c])

\* C4: a pixel of alpha 0 gets the first glyph of the table, whatever its
\* red, green and blue.
C4_TransparentIsLightest ==
    (Rendered /\ At(frame, 0, 0).A = 0) => output[1].ch = pixels[1]

\* pixelToASCII was called on a pixel of alpha 0 with non-zero channels
C4_Witness ==
    /\ phase = "pixel"
    /\ At(frame, 0, 0).A = 0
    /\ At(frame, 0, 0).R = 128
    /\ output[1].ch = pixels[1]

\* C5: with the default 15-level table, an opaque white pixel gets the last
\* glyph, index 14.
C5_WhiteIsDensest ==
    (/\ Rendered
     /\ pixels = DefaultPixels
     /\ At(frame, 0, 0).A = 255
     /\ At(frame, 0, 0).R = 255
     /\ At(frame, 0, 0).G = 255
     /\ At(frame, 0, 0).B = 255)
        => /\ output[1].ch = pixels[Len(pixels)]
           /\ IndexOf(pixels, output[1].ch) = 14

\* the default table has mapped an opaque white pixel
C5_Witness ==
    /\ Rendered
    /\ pixels = DefaultPixels
    /\ At(frame, 0, 0) = Col("NRGBA", 255, 255, 255, 255)
    /\ output[1].ch = 64

\* C6: for every pixel and every table of length >= 2 the index lies in
\* [0, glyph_count - 1], so the mapper returns a glyph of the table.
C6_IndexInRange ==
    phase = "pixel" =>
        /\ pixelIndex(pixels, At(frame, 0, 0)) \in 0 .. Len(pixels) - 1
        /\ output[1].ch # IndexPanic

\* (r + g + b) * alpha of a non-premultiplied colour
Brightness(c) == (c.R + c.G + c.B) * c.A

\* C7: for a fixed table the index is non-decreasing in (r + g + b) * alpha:
\* a pixel q at least as bright as the rendered pixel p never gets a lower
\* index.
C7_Monotone ==
    (phase = "ascii" /\ pixels = DefaultPixels) =>
        \A q \in PixelInputs :
            Brightness(nrgbaModel(At(frame, 0, 0))) <= Brightness(nrgbaModel(q))
                => IndexOf(pixels, output[1].ch) <= pixelIndex(pixels, nrgbaModel(q))

\* C8: the index is round-half-up(intensity / precision), with
\* intensity = (r + g + b) * alpha / 255 on the non-premultiplied channels and
\* precision = 765 / (glyph_count - 1); floor(i / (765 / m) + 1/2) is
\* (2 i m + 765) div 1530.
C8_IndexFormula ==
    (phase = "ascii" /\ pixels = DefaultPixels) =>
        LET c == nrgbaModel(At(frame, 0, 0))
            intensity == Brightness(c) \div 255
        IN  IndexOf(pixels, output[1].ch)
                = (2 * intensity * (Len(pixels) - 1) + 765) \div 1530

\* C9: with the global colour set (alpha > 0) every cell's foreground is that
\* colour; with it unset every cell's foreground is its own pixel's colour;
\* the glyphs are the same either way.
C9_GlobalColor ==
    phase = "ascii" =>
        /\ \A i \in 0 .. frame.h - 1 : \A j \in 0 .. frame.w - 1 :
             CellAt(output, frame.w, i, j).fg
                 = IF globalColor.A > 0 THEN FromColor(globalColor)
                                        ELSE FromColor(At(frame, j, i))
        /\ \A gc \in GlobalColors :
             LET other == ImageToASCII(pixels, gc, frame.w, frame.h, frame)
             IN  [k \in DOMAIN output |-> output[k].ch]
                     = [k \in DOMAIN other |-> other[k].ch]

\* a frame rendered under the override that holds a pixel of another colour
C9_Witness ==
    /\ phase = "ascii"
    /\ globalColor.A > 0
    /\ \E c \in Coords(frame.w, frame.h) :
         /\ FromColor(frame.pix[c]) # FromColor(globalColor)
         /\ CellAt(output, frame.w, c[2], c[1]).fg = FromColor(globalColor)

\* C10: Apply is idempotent: after Apply, applying it again leaves the frame
\* as it is, and a pixel that was transparent before an Apply is transparent
\* after it.
C10_ApplyIdempotent ==
    [][phase' = "applied" =>
          /\ ApplyImage(frame', background', threshold') = frame'
          /\ \A c \in Coords(frame.w, frame.h) :
               IsTransparent(frame.pix[c]) => IsTransparent(frame'.pix[c])]_vars

\* a subtracted frame with a removed pixel that a second pass, which sees it
\* as black, does not match against the background
C10_Witness ==
    /\ phase = "applied"
    /\ ~background.nil
    /\ threshold > 0
    /\ \E c \in Coords(frame.w, frame.h) :
         /\ IsTransparent(frame.pix[c])
         /\ DistanceLabSq(frame.pix[c], At(background, c[1], c[2]))
              >= threshold * threshold

-----------------------------------------------------------------------------
(* Properties of main and run *)

\* C11: a failed frame read never ends run.  A step taken at "read" leaves
\* run running, with no error and no exit status; when the read failed the
\* loop is back at the top with the failure counted, however many came
\* before it, the camera still open and no deferred call run; and from the
\* top, after failures, run goes on to read again unless it is cancelled.
C11_CaptureFailureNotFatal ==
    [][/\ run.pc = "read" =>
            /\ run'.pc \in {"read", "top", "sample", "render"}
            /\ run'.err = "running"
            /\ world'.exit = Running
            /\ run'.pc = "top" =>
                 /\ world'.fails = IF world.fails < MaxFails
                                     THEN world.fails + 1 ELSE MaxFails
                 /\ world'.camera = "open"
                 /\ run'.defers = run.defers
                 /\ run'.frameCount = run.frameCount
                 /\ world'.rendered = world.rendered
       /\ (run.pc = "top" /\ world.fails > 0 /\ ~world.cancelled) =>
            /\ run'.pc \in {"top", "read"}
            /\ run'.err = "running"
      ]_vars

\* the read has failed MaxFails times in a row and run is reading again
C11_Witness ==
    /\ run.pc = "read"
    /\ world.fails = MaxFails
    /\ run.err = "running"
    /\ world.camera = "open"

\* C12: cancellation is cooperative.  The arrival of the signal only sets
\* the flag: run's position and locals, the frame and the string are left
\* alone.  With the flag set, an iteration that is under way goes on as it
\* would have: the read returns to the next position, and a frame that was
\* read is rendered.  run returns nil without having completed the samples
\* only from the top of the loop and only with the flag set; at the top with
\* the flag set the step of run is that return, with status 0 and with no
\* frame read, rendered or written; with the flag clear run does not return
\* there.  And once the flag is set run ends.
C12_CooperativeCancel ==
    /\ [][/\ (~world.cancelled /\ world'.cancelled) =>
               /\ run' = run
               /\ world'.signalAt = run.pc
               /\ UNCHANGED <<frame, output, phase>>
          /\ (world.cancelled /\ run.pc = "read") =>
               /\ run'.pc \in {"top", "sample", "render"}
               /\ run'.err = "running"
          /\ (world.cancelled /\ run.pc = "render") =>
               /\ run'.pc \in {"fps", "top"}
               /\ run'.err = "running"
               /\ world'.rendered = world.rendered + 1
               /\ phase' \in {"ascii", "ansi"}
          /\ (run.pc # "done" /\ run'.pc = "done" /\ run'.err = "nil") =>
               \/ run.pc = "top" /\ world.cancelled
               \/ run.pc = "sample" /\ run'.frameCount > SampleLimit
          /\ (run.pc = "top" /\ world.cancelled /\ run' # run) =>
               /\ run'.pc = "done"
               /\ run'.err = "nil"
               /\ world'.exit = 0
               /\ world'.rendered = world.rendered
               /\ world'.files = world.files
               /\ UNCHANGED <<frame, output, phase>>
          /\ (run.pc = "top" /\ ~world.cancelled) => run'.pc # "done"
         ]_vars
    /\ (world.cancelled ~> run.pc = "done")

\* the signal came while a frame that had been read was waiting to be
\* rendered; the frame was rendered and run has returned nil
C12_Witness ==
    /\ world.signalAt = "render"
    /\ run.pc = "done"
    /\ run.err = "nil"
    /\ world.exit = 0
    /\ world.rendered >= 1
    /\ phase \in {"ascii", "ansi"}

\* the sample files written completely, in the order they were written
CompleteFiles == SelectSeq(world.files, LAMBDA f : f.complete)

\* run has stopped by itself in sample-generation mode: the counter passed
\* the limit
SamplesCompleted ==
    /\ run.pc = "done"
    /\ run.cfg.GenerateSamples
    /\ run.frameCount > SampleLimit

\* C13: in sample-generation mode run writes exactly 100 sample files and
\* then stops by itself with no error: when the counter has stopped the run,
\* run returned nil with status 0 and 100 files are on disk.
C13_HundredSamples ==
    SamplesCompleted =>
        /\ run.err = "nil"
        /\ world.exit = 0
        /\ Len(CompleteFiles) = SampleLimit

\* C14: sample generation and rendering exclude each other.  With the
\* generate-samples flag set run is never at the render or FPS position, no
\* frame has been rendered or printed, nothing is on the FPS line, and the
\* frame in hand is as the camera gave it (not background-subtracted, even
\* with a background loaded); with the flag clear run is never at the sample
\* position, no sample file exists and the sample counter stays 0.
C14_ModesExclusive ==
    /\ run.cfg.GenerateSamples =>
         /\ run.pc \notin {"render", "fps"}
         /\ world.rendered = 0
         /\ world.renderDims = <<0, 0>>
         /\ world.reported = NoReport
         /\ output = << >>
         /\ phase = "idle"
         /\ \/ frame = NilImage
            \/ frame \in CameraFrames(run.scaledWidth, run.scaledHeight)
    /\ ~run.cfg.GenerateSamples =>
         /\ run.pc # "sample"
         /\ world.files = << >>
         /\ run.frameCount = 0

\* samples have been written in a run that also has a background loaded
C14_Witness ==
    /\ run.cfg.GenerateSamples
    /\ run.cfg.UseGreenscreen
    /\ background # NilImage
    /\ Len(world.files) >= 2
    /\ run.pc = "top"

\* C15: in sample-generation mode a failed sample write is fatal.  The step
\* in which GenerateSamples fails ends run with that error and status 1,
\* leaves the frame counter as it was and adds no complete sample (at most
\* the file that could be created but not encoded); a step that leaves the
\* sample position for the top has written its sample and counted it; and
\* once run has ended no file is written.
C15_SampleFailureFatal ==
    [][/\ (run.pc = "sample" /\ run'.err = "error generating background sample") =>
            /\ run'.pc = "done"
            /\ world'.exit = 1
            /\ run'.frameCount = run.frameCount
            /\ CompleteFiles' = CompleteFiles
            /\ \/ world'.files = world.files
               \/ world'.files = Append(world.files,
                                        [n |-> run.frameCount, complete |-> FALSE])
       /\ (run.pc = "sample" /\ run'.pc = "top") =>
            /\ run'.frameCount = run.frameCount + 1
            /\ world'.files = Append(world.files,
                                     [n |-> run.frameCount, complete |-> TRUE])
       /\ run.pc = "done" => world'.files = world.files
      ]_vars

\* samples were written, then one could be created but not encoded: run has
\* ended with the error and the counter names the failed frame
C15_Witness ==
    /\ run.pc = "done"
    /\ run.err = "error generating background sample"
    /\ world.exit = 1
    /\ run.frameCount >= 2
    /\ Len(CompleteFiles) = run.frameCount
    /\ Len(world.files) = run.frameCount + 1

\* C16: with greenscreen requested, a background that cannot be loaded
\* aborts startup.  A greenscreen run that has no background is still in
\* setup, or has ended there: the cursor was not hidden, the alternate screen
\* not entered, no frame read, rendered or written.  When run's error is the
\* load failure, run has ended before the loop was set up, the camera it had
\* opened is closed, and the exit status is 1.
C16_BackgroundLoadAborts ==
    /\ (run.cfg.UseGreenscreen /\ background = NilImage) =>
         /\ run.pc \in {"flags", "camera", "processor", "done"}
         /\ ~world.altScreen
         /\ ~world.cursorHidden
         /\ run.fps = << >>
         /\ frame = NilImage
         /\ output = << >>
         /\ world.rendered = 0
         /\ world.files = << >>
    /\ run.err = "error loading background samples" =>
         /\ run.cfg.UseGreenscreen
         /\ background = NilImage
         /\ run.pc = "done"
         /\ world.exit = 1
         /\ world.camera = "closed"

\* the background could not be loaded and the process has exited
C16_Witness ==
    /\ run.err = "error loading background samples"
    /\ run.pc = "done"
    /\ world.exit = 1
    /\ world.camera = "closed"

\* the calls waiting in run's defer list
Deferred == {run.defers[i] : i \in 1 .. Len(run.defers)}

\* C17: what run acquires is released on every return.  While run is under
\* way each resource it holds has its release deferred (the camera, the
\* hidden cursor, the alternate screen).  Once run has ended, by any error,
\* by the samples completing or failing, by cancellation or by a panic, the
\* cursor is shown, the alternate screen is left and no deferred call is
\* pending; the camera is closed unless run ended before opening it.
C17_ResourcesReleased ==
    /\ run.pc # "done" =>
         /\ world.camera = "open" <=> "capture.Close" \in Deferred
         /\ world.cursorHidden <=> "output.ShowCursor" \in Deferred
         /\ world.altScreen <=> "output.ExitAltScreen" \in Deferred
         /\ world.camera # "closed"
    /\ run.pc = "done" =>
         /\ run.defers = << >>
         /\ ~world.cursorHidden
         /\ ~world.altScreen
         /\ world.camera = IF run.err \in {"error parsing flags",
                                           "error initializing camera"}
                             THEN "unopened" ELSE "closed"
         /\ world.exit # Running

\* run was cancelled after rendering in the alternate screen, and has ended
\* with everything released
C17_Witness ==
    /\ run.pc = "done"
    /\ run.err = "nil"
    /\ world.cancelled
    /\ world.rendered >= 1
    /\ world.camera = "closed"
    /\ ~world.cursorHidden
    /\ ~world.altScreen

\* the display dimensions that detection gives for a terminal of this size
TargetDims(cfg, size) ==
    GetDisplayDimensions(Validate([cfg EXCEPT !.Width = 0, !.Height = 0], size))

\* C18: when the terminal size changes between two iterations, the target
\* dimensions are recomputed from the new size before the next frame is
\* rendered (and the screen is cleared): every frame is rendered for the
\* dimensions of the terminal as it is when the frame is rendered.
C18_ResizeRecomputes ==
    [][world'.rendered = world.rendered + 1 =>
          world'.renderDims = TargetDims(run.cfg, world.termSize)]_vars

\* C19: the FPS bookkeeping never faults, whatever the elapsed time >= 0,
\* zero included: run never ends by a panic, and the process never exits
\* with the runtime's panic status.
C19_NoArithmeticFault ==
    /\ run.err # "panic"
    /\ world.exit # ExitStatus("panic")

\* the last FPSWindow values of log, newest first, with 0 where there is none
Window(log) ==
    [i \in 1 .. FPSWindow |-> IF i <= Len(log) THEN log[Len(log) + 1 - i] ELSE 0]

\* C20: the rolling FPS buffer has exactly 10 entries wherever the loop is.
\* With FPS display on, between the FPS bookkeeping of one frame and that of
\* the next, every rendered frame has its FPS value, the buffer holds the
\* values of the last 10 rendered frames, newest first (0 where fewer than 10
\* frames were rendered), and what was last reported is the sum of these
\* entries over 10, printed to the nearest integer.  With FPS display off
\* the buffer stays at its zeros and nothing is reported.
C20_RollingWindow ==
    /\ run.pc \in {"top", "read", "sample", "render", "fps"} =>
         Len(run.fps) = FPSWindow
    /\ (run.cfg.ShowFPS /\ run.pc \in {"top", "read", "render"}) =>
         /\ Len(world.fpsLog) = world.rendered
         /\ run.fps = Window(world.fpsLog)
         /\ world.rendered >= 1 =>
              /\ world.reported.mean = <<SumSeq(Window(world.fpsLog)), FPSWindow>>
              /\ world.reported.text =
                   RoundHalfEven(SumSeq(Window(world.fpsLog)), FPSWindow)
    /\ (~run.cfg.ShowFPS /\ run.pc \in {"top", "read", "sample", "render"}) =>
         /\ run.fps = [i \in 1 .. FPSWindow |-> 0]
         /\ world.reported = NoReport

\* more than 10 frames have been rendered with FPS display on: the oldest
\* value has left the buffer
C20_Witness ==
    /\ run.cfg.ShowFPS
    /\ run.pc = "top"
    /\ world.rendered > FPSWindow
    /\ run.fps[FPSWindow] # world.fpsLog[1]
    /\ run.fps[1] = world.fpsLog[Len(world.fpsLog)]
    /\ world.reported # NoReport

-----------------------------------------------------------------------------
(* ImageToASCII called with a grid of its own: the width and height are the *)
(* caller's, whatever the image's size is.                                  *)

InitGrid ==
    /\ pixels = DefaultPixels
    /\ globalColor = UnsetColor
    /\ threshold = 0
    /\ background = NilImage
    /\ \E w \in 1 .. MaxW, h \in 1 .. MaxH : frame \in Frames(w, h)
    /\ output = << >>
    /\ phase = "idle"
    /\ run = NoRun
    /\ world = NoWorld
    /\ samplePath = DefaultSamplePath
    /\ call = NoCall

\* converter.ImageToASCII(width, height, p, img) for any width and height
CallImageToASCIIGrid ==
    /\ phase = "idle"
    /\ \E width \in 0 .. MaxW, height \in 0 .. MaxH :
         /\ output' = ImageToASCII(pixels, globalColor, width, height, frame)
         /\ call' = [op |-> "ImageToASCII", width |-> width, height |-> height]
    /\ phase' = "ascii"
    /\ UNCHANGED <<pixels, globalColor, threshold, background, frame, run, world,
                   samplePath>>

NextGrid ==
    \/ CallSetGlobalColor
    \/ CallImageToASCIIGrid
    \/ ReadFrame

SpecGrid == InitGrid /\ [][NextGrid]_vars

\* C21: ImageToASCII returns the empty string whenever width = 0 or
\* height = 0, whatever the other one is.
C21_ZeroSizeEmpty ==
    (phase = "ascii" /\ call.op = "ImageToASCII"
        /\ (call.width = 0 \/ call.height = 0)) =>
        output = << >>


\* C22: for an image of odd height H, ImageToANSI drops the last row: it emits
\* (H-1)/2 lines (and so never samples a pixel row with index >= H).
C22_OddHeightDropsLastRow ==
    (phase = "ansi" /\ frame.h % 2 = 1) =>
        Cardinality({k \in DOMAIN output : output[k] = NL}) = (frame.h - 1) \div 2


-----------------------------------------------------------------------------
(* config.Config.Validate called on its own, once or repeatedly, as the     *)
(* package's tests and benchmark call it.                                   *)

MaxCalls == 2

\* configurations as flags can leave them: any width, height and zoom
FlagConfigs ==
    [GenerateSamples : {FALSE},
     UseGreenscreen  : {FALSE},
     ANSI            : BOOLEAN,
     ShowFPS         : {FALSE},
     ParsedColor     : {UnsetColor},
     Threshold       : {1300},
     Width           : {0, 3, 80},
     Height          : {0, 5, 24},
     Zoom            : 0 .. 5]

\* what getTermSize finds: <<0, 0>> stands for its error
DetectedSizes == {<<0, 0>>, <<4, 3>>}

InitConfig ==
    /\ pixels = DefaultPixels
    /\ globalColor = UnsetColor
    /\ threshold = 0
    /\ background = NilImage
    /\ frame = NilImage
    /\ output = << >>
    /\ phase = "idle"
    /\ run = NoRun
    /\ world = NoWorld
    /\ samplePath = DefaultSamplePath
    /\ \E c \in FlagConfigs, size \in DetectedSizes :
         call = [op |-> "Validate", before |-> c, cfg |-> c, size |-> size,
                 calls |-> 0]

\* cfg.Validate()
CallValidate ==
    /\ call.op = "Validate"
    /\ call.calls < MaxCalls
    /\ call' = [call EXCEPT !.cfg = Validate(call.cfg, call.size),
                            !.calls = call.calls + 1]
    /\ UNCHANGED <<pixels, globalColor, threshold, background, frame, output,
                   phase, run, world, samplePath>>

NextConfig == CallValidate

SpecConfig == InitConfig /\ [][NextConfig]_vars

C30_ValidateIdempotent ==
    (call.op = "Validate" /\ call.calls = 2) =>
        call.cfg = Validate(call.before, call.size)


-----------------------------------------------------------------------------
(* package errors: sentinels, the four context wrappers, IsRetryable and    *)
(* IsFatal.                                                                 *)

MaxWrap == 2

NilError == [kind |-> "nil"]

\* a value made by errors.New: it has no Unwrap method
Sentinel(name) == [kind |-> "sentinel", name |-> name]

\* the package's var block
SentinelNames ==
    {"ErrCameraNotFound", "ErrCameraInitFailed", "ErrCameraReadFailed",
     "ErrCameraUnsupported",
     "ErrInvalidConfig", "ErrConfigParseFailed", "ErrInvalidColorCode",
     "ErrInvalidDimensions",
     "ErrFileNotFound", "ErrFileReadFailed", "ErrFileWriteFailed",
     "ErrDirCreateFailed",
     "ErrImageProcessFailed", "ErrImageResizeFailed", "ErrImageDecodeFailed",
     "ErrImageEncodeFailed",
     "ErrGreenscreenLoadFailed", "ErrGreenscreenApplyFailed",
     "ErrSampleGenerateFailed",
     "ErrTerminalSizeFailed", "ErrTerminalNotTTY"}

\* the errors a caller starts from: nil, a sentinel, or an error of another
\* package
BaseErrors ==
    {NilError} \cup {Sentinel(n) : n \in SentinelNames \cup {"foreign"}}

\* CameraError, ConfigError, FileError, ImageError
WrapperKinds == {"CameraError", "ConfigError", "FileError", "ImageError"}

\* NewCameraError, NewConfigError, NewFileError, NewImageError
NewError(kind, err) == [kind |-> kind, Err |-> err]

\* (e *CameraError) Unwrap() and its three siblings
Unwrap(e) == e.Err

RECURSIVE Is(_, _)
\* errors.Is(err, target) for a comparable target: compare, unwrap, repeat
Is(err, target) ==
    IF err.kind = "nil" THEN FALSE
    ELSE IF err = target THEN TRUE
    ELSE IF err.kind = "sentinel" THEN FALSE
    ELSE Is(Unwrap(err), target)

\* faulty variant: only the error itself is compared, its chain is not walked
IsRetryableShallow(err) ==
    IF err = NilError THEN FALSE
    ELSE \/ err = Sentinel("ErrCameraReadFailed")
         \/ err = Sentinel("ErrFileReadFailed")
         \/ err = Sentinel("ErrImageProcessFailed")

IsRetryable(err) ==
    IF err = NilError THEN FALSE
    ELSE \/ Is(err, Sentinel("ErrCameraReadFailed"))
         \/ Is(err, Sentinel("ErrFileReadFailed"))
         \/ Is(err, Sentinel("ErrImageProcessFailed"))

IsFatal(err) ==
    IF err = NilError THEN FALSE
    ELSE \/ Is(err, Sentinel("ErrCameraNotFound"))
         \/ Is(err, Sentinel("ErrCameraUnsupported"))
         \/ Is(err, Sentinel("ErrInvalidConfig"))
         \/ Is(err, Sentinel("ErrTerminalNotTTY"))

InitErrors ==
    /\ pixels = DefaultPixels
    /\ globalColor = UnsetColor
    /\ threshold = 0
    /\ background = NilImage
    /\ frame = NilImage
    /\ output = << >>
    /\ phase = "idle"
    /\ run = NoRun
    /\ world = NoWorld
    /\ samplePath = DefaultSamplePath
    /\ \E e \in BaseErrors :
         call = [op |-> "classify", err |-> e, base |-> e, depth |-> 0,
                 asked |-> {}, retryable |-> FALSE, fatal |-> FALSE]

\* one of the wrappers is put around the error
CallNewError ==
    /\ call.op = "classify"
    /\ call.depth < MaxWrap
    /\ \E kind \in WrapperKinds :
         call' = [call EXCEPT !.err = NewError(kind, call.err),
                              !.depth = call.depth + 1,
                              !.asked = {},
                              !.retryable = FALSE,
                              !.fatal = FALSE]
    /\ UNCHANGED <<pixels, globalColor, threshold, background, frame, output,
                   phase, run, world, samplePath>>

CallIsRetryable ==
    /\ call.op = "classify"
    /\ call' = [call EXCEPT !.retryable = IsRetryable(call.err),
                            !.asked = call.asked \cup {"IsRetryable"}]
    /\ UNCHANGED <<pixels, globalColor, threshold, background, frame, output,
                   phase, run, world, samplePath>>

CallIsFatal ==
    /\ call.op = "classify"
    /\ call' = [call EXCEPT !.fatal = IsFatal(call.err),
                            !.asked = call.asked \cup {"IsFatal"}]
    /\ UNCHANGED <<pixels, globalColor, threshold, background, frame, output,
                   phase, run, world, samplePath>>

NextErrors ==
    \/ CallNewError
    \/ CallIsRetryable
    \/ CallIsFatal

SpecErrors == InitErrors /\ [][NextErrors]_vars

\* C24: for the error at the bottom of any nesting of the four wrappers,
\* IsRetryable answers true exactly when it is camera-read-failed,
\* file-read-failed or image-process-failed, and IsFatal exactly when it is
\* camera-not-found, camera-unsupported, invalid-config or terminal-not-tty;
\* nil (wrapped or not) is neither.
C24_ClassificationFollowsChain ==
    call.op = "classify" =>
        /\ "IsRetryable" \in call.asked =>
             call.retryable =
                 (call.base \in {Sentinel("ErrCameraReadFailed"),
                                 Sentinel("ErrFileReadFailed"),
                                 Sentinel("ErrImageProcessFailed")})
        /\ "IsFatal" \in call.asked =>
             call.fatal =
                 (call.base \in {Sentinel("ErrCameraNotFound"),
                                 Sentinel("ErrCameraUnsupported"),
                                 Sentinel("ErrInvalidConfig"),
                                 Sentinel("ErrTerminalNotTTY")})

\* file-read-failed inside a FileError inside a CameraError has been found
\* retryable and not fatal
C24_Witness ==
    /\ call.op = "classify"
    /\ call.depth = 2
    /\ call.err.kind = "CameraError"
    /\ call.err.Err.kind = "FileError"
    /\ call.base = Sentinel("ErrFileReadFailed")
    /\ call.asked = {"IsRetryable", "IsFatal"}
    /\ call.retryable
    /\ ~call.fatal


-----------------------------------------------------------------------------
(* run under -zoom: the rendering loop for every zoom level, on terminals   *)
(* large enough for every scaled dimension to be at least 1.                *)

\* terminals of 4 columns and 4 or 5 rows
ZoomSizes == {<<4, 4>>, <<4, 5>>}

\* the flags of a rendering run: -zoom 1..4, with or without -ansi and
\* -greenscreen
ZoomConfigs ==
    [GenerateSamples : {FALSE},
     UseGreenscreen  : BOOLEAN,
     ANSI            : BOOLEAN,
     ShowFPS         : {FALSE},
     ParsedColor     : {UnsetColor},
     Threshold       : {1300},
     Width           : {0},
     Height          : {0},
     Zoom            : 1 .. 4]

InitZoom ==
    /\ pixels = DefaultPixels
    /\ globalColor = UnsetColor
    /\ threshold = 0
    /\ background = NilImage
    /\ frame = NilImage
    /\ output = << >>
    /\ phase = "idle"
    /\ \E c \in ZoomConfigs :
         run = [pc |-> "flags", cfg |-> c, err |-> "running", defers |-> << >>,
                termWidth |-> 0, termHeight |-> 0,
                scaledWidth |-> 0, scaledHeight |-> 0,
                fps |-> << >>, frameCount |-> 0]
    /\ \E size \in ZoomSizes :
         world = [termSize |-> size, cancelled |-> FALSE, signalAt |-> "never",
                  camera |-> "unopened", cursorHidden |-> FALSE, altScreen |-> FALSE,
                  files |-> << >>, rendered |-> 0, renderDims |-> <<0, 0>>,
                  fails |-> 0, fpsLog |-> << >>, reported |-> NoReport,
                  exit |-> Running]
    /\ samplePath = DefaultSamplePath
    /\ call = NoCall

NextZoom ==
    \/ Cancel
    \/ ParseFlags
    \/ OpenCamera
    \/ SetupProcessor
    \/ SetupTerminal
    \/ LoopTop
    \/ CaptureFrame
    \/ CaptureFailed
    \/ RenderFrame

SpecZoom == InitZoom /\ [][NextZoom]_vars

\* C25: in every rendering step in ASCII mode, for any zoom level 1..4, the
\* image handed to ImageToASCII has exactly the width and height passed to
\* the renderer.
C25_ImageMatchesGrid ==
    (run.pc # "absent" /\ phase = "ascii") =>
        /\ frame.w = world.renderDims[1]
        /\ frame.h = world.renderDims[2]


\* C26: whenever the run loop applies the background subtractor, for any
\* zoom level 1..4 in ASCII or ANSI mode, the working frame and the loaded
\* background have the same pixel dimensions.
C26_FrameMatchesBackground ==
    (run.pc # "absent" /\ run.cfg.UseGreenscreen /\ phase \in {"ascii", "ansi"}) =>
        /\ frame.w = background.w
        /\ frame.h = background.h

\* C27: in ANSI mode the run loop always hands ImageToANSI an image of even
\* pixel height, for every terminal height and every zoom level 1..4.
C27_AnsiEvenHeight ==
    (run.pc # "absent" /\ phase = "ansi") => frame.h % 2 = 0


-----------------------------------------------------------------------------
(* greenscreen.Processor on its own: any sequence of its operations over a  *)
(* file system in which a sample directory holds a readable 40.png or not.  *)

\* the paths a Processor is given: the default and the one of
\* TestLoadBackground_NonexistentFile
SamplePaths == {DefaultSamplePath, "nonexistent_path"}

\* the sizes LoadBackground is asked for
LoadSizes == {<<1, 1>>, <<MaxW, 1>>}

\* p.background != nil
HasBackground == ~background.nil

InitProcessor ==
    /\ pixels = DefaultPixels
    /\ globalColor = UnsetColor
    /\ threshold = 1300
    /\ background = NilImage
    /\ frame = NilImage
    /\ output = << >>
    /\ phase = "idle"
    /\ run = NoRun
    /\ world = NoWorld
    /\ samplePath \in SamplePaths
    /\ \E files \in SUBSET {DefaultSamplePath} :
         call = [op |-> "NewProcessor", err |-> "nil", before |-> NilImage,
                 files |-> files, loaded |-> FALSE]

\* faulty variant: a failed load drops the background
ProcessorLoadBackgroundClears ==
    /\ \/ /\ samplePath \in call.files
          /\ \E size \in LoadSizes :
               background' \in SampleBackgrounds(size[1], size[2])
          /\ call' = [call EXCEPT !.op = "LoadBackground", !.err = "nil",
                                  !.before = background, !.loaded = TRUE]
       \/ /\ background' = NilImage
          /\ call' = [call EXCEPT !.op = "LoadBackground",
                                  !.err = "ErrGreenscreenLoadFailed",
                                  !.before = background]
    /\ UNCHANGED <<pixels, globalColor, threshold, frame, output, phase, run,
                   world, samplePath>>

\* p.LoadBackground(width, height): 40.png of the sample path is read,
\* decoded and resized and becomes the background, or one of these fails
\* and the error is returned
ProcessorLoadBackground ==
    /\ \/ /\ samplePath \in call.files
          /\ \E size \in LoadSizes :
               background' \in SampleBackgrounds(size[1], size[2])
          /\ call' = [call EXCEPT !.op = "LoadBackground", !.err = "nil",
                                  !.before = background, !.loaded = TRUE]
       \/ /\ background' = background
          /\ call' = [call EXCEPT !.op = "LoadBackground",
                                  !.err = "ErrGreenscreenLoadFailed",
                                  !.before = background]
    /\ UNCHANGED <<pixels, globalColor, threshold, frame, output, phase, run,
                   world, samplePath>>

\* p.SetThreshold(threshold)
ProcessorSetThreshold ==
    /\ \E t \in Thresholds : threshold' = t
    /\ call' = [call EXCEPT !.op = "SetThreshold", !.err = "nil",
                            !.before = background]
    /\ UNCHANGED <<pixels, globalColor, background, frame, output, phase, run,
                   world, samplePath>>

\* p.SetSamplePath(path)
ProcessorSetSamplePath ==
    /\ \E path \in SamplePaths : samplePath' = path
    /\ call' = [call EXCEPT !.op = "SetSamplePath", !.err = "nil",
                            !.before = background]
    /\ UNCHANGED <<pixels, globalColor, threshold, background, frame, output,
                   phase, run, world>>

\* p.GenerateSamples(img, 40): the directory is made and 40.png written, or
\* the call fails
ProcessorGenerateSamples ==
    /\ \/ call' = [call EXCEPT !.op = "GenerateSamples", !.err = "nil",
                               !.before = background,
                               !.files = call.files \cup {samplePath}]
       \/ call' = [call EXCEPT !.op = "GenerateSamples",
                               !.err = "failed to create sample file",
                               !.before = background]
    /\ UNCHANGED <<pixels, globalColor, threshold, background, frame, output,
                   phase, run, world, samplePath>>

NextProcessor ==
    \/ ProcessorLoadBackground
    \/ ProcessorSetThreshold
    \/ ProcessorSetSamplePath
    \/ ProcessorGenerateSamples

SpecProcessor == InitProcessor /\ [][NextProcessor]_vars

\* C28: over any sequence of Processor operations, a LoadBackground that
\* fails returns an error and leaves the background exactly as it was;
\* HasBackground is true if and only if some earlier LoadBackground
\* succeeded; SetThreshold and SetSamplePath never change the background.
C28_BackgroundOnlyBySuccessfulLoad ==
    call.op \in {"NewProcessor", "LoadBackground", "SetThreshold",
                 "SetSamplePath", "GenerateSamples"} =>
        /\ (call.op = "LoadBackground" /\ call.err # "nil") =>
               background = call.before
        /\ call.op \in {"SetThreshold", "SetSamplePath"} =>
               background = call.before
        /\ HasBackground <=> call.loaded

\* a load from a path without a sample has just failed on a processor that
\* had loaded a background before, and the background is still there
C28_Witness ==
    /\ call.op = "LoadBackground"
    /\ call.err = "ErrGreenscreenLoadFailed"
    /\ samplePath = "nonexistent_path"
    /\ samplePath \notin call.files
    /\ call.loaded
    /\ HasBackground
    /\ background = call.before


\* the file of index n has been written completely
SampleWritten(n) ==
    \E i \in 1 .. Len(world.files) :
        world.files[i].n = n /\ world.files[i].complete

\* the sample files carry the indices 0, 1, 2, ... in the order they were
\* made, and the counter is the number of frames written completely
IndicesInStep ==
    /\ \A i \in 1 .. Len(world.files) : world.files[i].n = i - 1
    /\ run.frameCount = Len(CompleteFiles)
    /\ Len(world.files) - Len(CompleteFiles) \in {0, 1}

\* C29 as stated: in sample-generation mode the k-th captured frame is
\* written under index k, with no gap and no repeat, a failed capture
\* consumes no index, and a generation run that ends successfully (run
\* returns nil) has written the file of index 40.
C29_SuccessfulRunWroteForty ==
    (run.pc # "absent" /\ run.cfg.GenerateSamples) =>
        /\ IndicesInStep
        /\ (run.pc = "done" /\ run.err = "nil") => SampleWritten(40)

\* C29 amended: in sample-generation mode the k-th captured frame is written
\* under index k, with no gap and no repeat, a failed capture consumes no
\* index, and a generation run that stops by itself because the counter
\* passed the limit has written the file of index 40; in general that file
\* exists exactly when at least 41 frames were written.
C29_IndicesInStep ==
    (run.pc # "absent" /\ run.cfg.GenerateSamples) =>
        /\ IndicesInStep
        /\ SamplesCompleted => SampleWritten(40)
        /\ SampleWritten(40) <=> run.frameCount >= 41

\* a capture has just failed after 41 frames were written: the last file is
\* 40 and the counter is 41
C29_Witness ==
    /\ run.pc = "top"
    /\ run.cfg.GenerateSamples
    /\ world.fails > 0
    /\ run.frameCount = 41
    /\ Len(world.files) = 41
    /\ world.files[41] = [n |-> 40, complete |-> TRUE]

====
